---- MODULE Spec2Model ----
(***************************************************************************)
(* NutriTrack: the food-detection edge function (detect-food/index.ts),    *)
(* the FoodDetection component that calls it, and the meal save / delete   *)
(* path over the relational store (MainApp, MealHistory, the migration).   *)
(*                                                                         *)
(* Numbers.  Grams and calories are integers.  Protein, carbs and fat are  *)
(* kept in TENTHS of a gram (46.5 g is 465), the catalog's per-100g values *)
(* in tenths as well (3.6 g is 36, 165 kcal is 1650).  Math.round(x) is    *)
(* floor(x + 1/2); it is computed here on exact rationals, so the IEEE-754 *)
(* representation error of the JavaScript doubles is not modelled.         *)
(*                                                                         *)
(* Text.  A name is a tuple of one-character strings, so that ILIKE and    *)
(* substring containment are computed character by character.              *)
(***************************************************************************)
EXTENDS Integers, Sequences, FiniteSets, TLC

(***************************************************************************)
(* Bounds of the model.                                                    *)
(***************************************************************************)
\* the longest candidate array the vision model returns
MaxCandidates == 2
\* how many meal rows the store ever creates
MaxMeals == 3
\* the last calendar day of a run (the first is day 1)
MaxDay == 2

(***************************************************************************)
(* Characters and names.                                                   *)
(***************************************************************************)
UpperCase == <<"A","B","C","D","E","F","G","H","I","J","K","L","M",
               "N","O","P","Q","R","S","T","U","V","W","X","Y","Z">>

LowerCase == <<"a","b","c","d","e","f","g","h","i","j","k","l","m",
               "n","o","p","q","r","s","t","u","v","w","x","y","z">>

\* lower-casing of one character, as ILIKE compares
ToLower(ch) ==
    IF \E i \in 1..26 : UpperCase[i] = ch
    THEN LowerCase[CHOOSE i \in 1..26 : UpperCase[i] = ch]
    ELSE ch

Lower(s) == [i \in 1..Len(s) |-> ToLower(s[i])]

\* SQL LIKE: % matches any run of characters, _ any one character
RECURSIVE Like(_, _)
Like(s, p) ==
    IF p = <<>> THEN s = <<>>
    ELSE IF Head(p) = "%"
         THEN Like(s, Tail(p)) \/ (s # <<>> /\ Like(Tail(s), p))
         ELSE /\ s # <<>>
              /\ (Head(p) = "_" \/ Head(p) = Head(s))
              /\ Like(Tail(s), Tail(p))

\* .ilike("name", `%${food.name}%`): the candidate's name is pasted into the
\* pattern unescaped, so a % or _ in it is a wildcard
ILikeContains(rowName, foodName) ==
    Like(Lower(rowName), <<"%">> \o Lower(foodName) \o <<"%">>)

\* plain case-insensitive substring containment of sub in s
IsSubstring(sub, s) ==
    \E i \in 1..(Len(s) - Len(sub) + 1) :
        Lower(SubSeq(s, i, i + Len(sub) - 1)) = Lower(sub)

ChickenBreast == <<"C","h","i","c","k","e","n"," ","B","r","e","a","s","t">>
BrownRice     == <<"B","r","o","w","n"," ","R","i","c","e">>
Broccoli      == <<"B","r","o","c","c","o","l","i">>
Salmon        == <<"S","a","l","m","o","n">>
Banana        == <<"B","a","n","a","n","a">>

(***************************************************************************)
(* The food_items table as the migration seeds it (per-100g values in      *)
(* tenths).  The pipeline only reads it.                                   *)
(***************************************************************************)
Row(n, nm, cal, pro, carb, fat) ==
    [id |-> <<"food", n>>, name |-> nm, calories_per_100g |-> cal,
     protein_per_100g |-> pro, carbs_per_100g |-> carb, fat_per_100g |-> fat]

food_items ==
    { Row(1, ChickenBreast, 1650, 310, 0, 36),
      Row(2, BrownRice,     1110, 26, 230, 9),
      Row(3, Broccoli,      340, 28, 70, 4),
      Row(4, Salmon,        2080, 200, 0, 130),
      Row(5, Banana,        890, 11, 230, 3) }

(***************************************************************************)
(* What the vision model can name, and with which portion and confidence.  *)
(***************************************************************************)
CandidateNames ==
    { ChickenBreast,
      <<"b","r">>,
      <<"T","a","n","d","o","o","r","i"," ">> \o ChickenBreast,
      <<"U","n","i","c","o","r","n"," ","M","e","a","t">>,
      <<"B","r","o","w","n","_","R","i","c","e">> }

\* (portionGrams, confidence in tenths)
PortionConfidence == { <<150, 9>>, <<125, 6>> }

FoodItem == { [name |-> nm, portionGrams |-> pc[1], confidence |-> pc[2]] :
                nm \in CandidateNames, pc \in PortionConfidence }

\* a rounding that truncates instead (Math.floor)
MathRoundTruncates(n, d) == n \div d

\* Math.round of the rational n / d (d > 0): floor(n/d + 1/2)
MathRound(n, d) == (2 * n + d) \div (2 * d)

(***************************************************************************)
(* The detection endpoint: Deno.serve handler of detect-food/index.ts.     *)
(***************************************************************************)
\* a field that is not there (JavaScript undefined)
Undefined == "<undefined>"

\* the image the app captured (MainApp passes capturedImage as imageUrl)
CapturedImage == "data:image/jpeg;base64"

\* a check that only catches the absent field (imageUrl === undefined)
FalsyOnlyUndefined(v) == v = Undefined

\* !imageUrl
Falsy(v) == v \in {Undefined, ""}

NoRequest ==
    [method |-> "none", json |-> FALSE, imageUrl |-> Undefined,
     auth |-> FALSE, from |-> "none"]

\* what an HTTP client can send: the body parses as JSON or not, imageUrl is
\* absent, empty or a URL, the Authorization header carries a token or not
Requests ==
    [method : {"OPTIONS", "POST"}, json : BOOLEAN,
     imageUrl : {Undefined, "", CapturedImage}, auth : BOOLEAN,
     from : {"direct"}]

NoResponse ==
    [status |-> 0, foods |-> <<>>, message |-> Undefined, error |-> Undefined]

Failure500 ==
    [status |-> 500, foods |-> <<>>, message |-> Undefined,
     error |-> "Failed to detect food"]

Required400 ==
    [status |-> 400, foods |-> <<>>, message |-> Undefined,
     error |-> "Image URL is required"]

Empty200 ==
    [status |-> 200, foods |-> <<>>,
     message |-> "No foods detected. Please add manually.",
     error |-> Undefined]

Foods200(fs) ==
    [status |-> 200, foods |-> fs, message |-> Undefined, error |-> Undefined]

(***************************************************************************)
(* The text the vision model answers with, as tokens: prose, an opening    *)
(* bracket, a closing bracket, or one array element (a FoodItem).          *)
(***************************************************************************)
Prose == <<"prose">>
LB    == <<"[">>
RB    == <<"]">>
Item(f) == <<"item", f>>

RECURSIVE SeqsUpTo(_, _)
SeqsUpTo(S, n) ==
    IF n = 0 THEN {<<>>}
    ELSE LET shorter == SeqsUpTo(S, n - 1)
         IN  shorter \cup {Append(q, x) : q \in shorter, x \in S}

ItemSeqs == SeqsUpTo({Item(f) : f \in FoodItem}, MaxCandidates)

\* the array, whole or cut off before its closing bracket, or nothing
Cores ==
    {<<>>} \cup {<<LB>> \o its \o <<RB>> : its \in ItemSeqs}
           \cup {<<LB>> \o its : its \in ItemSeqs}

\* explanatory prose around it, possibly with a bracketed remark
Affixes == {<<>>, <<Prose>>, <<LB, Prose, RB>>}

Texts == {pre \o core \o post : pre \in Affixes, core \in Cores,
                               post \in {<<>>, <<Prose>>}}

\* textResponse.match(/\[.*\]/s): from the first "[" to the last "]"
\* after it; <<>> when there is no such pair (match returns null)
RegexMatch(text) ==
    LET opens  == {i \in 1..Len(text) : text[i] = LB}
        first  == CHOOSE i \in opens : \A j \in opens : i <= j
        closes == {i \in 1..Len(text) : text[i] = RB /\ i > first}
        last   == CHOOSE i \in closes : \A j \in closes : j <= i
    IN  IF opens = {} \/ closes = {} THEN <<>>
        ELSE SubSeq(text, first, last)

\* whether JSON.parse accepts the matched slice: an array of elements (the
\* texts of this model never nest arrays)
ParsesAsJSON(m) ==
    /\ Len(m) >= 2
    /\ m[1] = LB
    /\ m[Len(m)] = RB
    /\ \A i \in 2..(Len(m) - 1) : m[i][1] = "item"

\* JSON.parse(jsonMatch[0]) of a slice that parses
ParsedArray(m) == [i \in 1..(Len(m) - 2) |-> m[i + 1][2]]

(***************************************************************************)
(* What the call to the vision service can come to.                        *)
(*   network_error : fetch rejects (connection failure, timeout)           *)
(*   not_json      : a response whose body is not JSON (.json() rejects)   *)
(*   rejected      : an error payload without candidates (auth, quota)     *)
(*   no_content    : candidates[0] without content.parts[0].text           *)
(*   text          : candidates[0].content.parts[0].text is the text       *)
(***************************************************************************)
NoCall == [kind |-> "none", text |-> <<>>]

GeminiOutcomes ==
    {[kind |-> k, text |-> <<>>] :
        k \in {"network_error", "not_json", "rejected", "no_content"}}
    \cup {[kind |-> "text", text |-> t] : t \in Texts}

\* the outcomes on which an exception reaches the handler's catch
GeminiThrows(o) ==
    \/ o.kind \in {"network_error", "not_json", "no_content"}
    \/ /\ o.kind = "text"
       /\ RegexMatch(o.text) # <<>>
       /\ ~ParsesAsJSON(RegexMatch(o.text))

\* detectedFoods after lines 80-89, when nothing was thrown
GeminiFoods(o) ==
    IF o.kind = "text" /\ RegexMatch(o.text) # <<>>
    THEN ParsedArray(RegexMatch(o.text))
    ELSE <<>>

(***************************************************************************)
(* Enrichment of one candidate (lines 105-140).                            *)
(***************************************************************************)
\* Math.random() in the synthesized id
Randoms == {1, 2}

\* the rows the ilike query can return before .limit(1)
DbFoods(food) == {row \in food_items : ILikeContains(row.name, food.name)}

MatchedRecord(food, dbFood) ==
    [id |-> dbFood.id,
     name |-> dbFood.name,
     portionGrams |-> food.portionGrams,
     calories |-> MathRound(dbFood.calories_per_100g * food.portionGrams, 1000),
     protein |-> MathRound(dbFood.protein_per_100g * food.portionGrams, 100),
     carbs |-> MathRound(dbFood.carbs_per_100g * food.portionGrams, 100),
     fat |-> MathRound(dbFood.fat_per_100g * food.portionGrams, 100),
     confidence |-> food.confidence,
     notInDatabase |-> FALSE]

\* an unmatched record that falls back to a 100 g portion
UnmatchedDefaultPortion(food, rnd) ==
    [id |-> <<"temp", rnd>>,
     name |-> food.name,
     portionGrams |-> 100,
     calories |-> 0,
     protein |-> 0,
     carbs |-> 0,
     fat |-> 0,
     confidence |-> food.confidence,
     notInDatabase |-> TRUE]

UnmatchedRecord(food, rnd) ==
    [id |-> <<"temp", rnd>>,
     name |-> food.name,
     portionGrams |-> food.portionGrams,
     calories |-> 0,
     protein |-> 0,
     carbs |-> 0,
     fat |-> 0,
     confidence |-> food.confidence,
     notInDatabase |-> TRUE]

\* the records the callback can return for one candidate: .limit(1) without
\* an order takes any one matching row
EnrichOne(food) ==
    IF DbFoods(food) # {}
    THEN {MatchedRecord(food, dbFood) : dbFood \in DbFoods(food)}
    ELSE {UnmatchedRecord(food, rnd) : rnd \in Randoms}

\* an enrichment that scales every candidate by the first one's portion
EnrichAllByFirstPortion(foods) ==
    IF foods = <<>> THEN {<<>>}
    ELSE {[i \in 1..Len(foods) |->
             CHOOSE r \in EnrichOne([foods[i] EXCEPT
                                       !.portionGrams = foods[1].portionGrams]) :
                 TRUE]}

\* Promise.all(detectedFoods.map(...)): one record per candidate, in order
RECURSIVE EnrichAll(_)
EnrichAll(foods) ==
    IF foods = <<>> THEN {<<>>}
    ELSE {<<h>> \o t : h \in EnrichOne(Head(foods)),
                      t \in EnrichAll(Tail(foods))}


(***************************************************************************)
(* State.                                                                  *)
(*   request, hpc, gemini, detected, response : one run of the handler;    *)
(*       detected is index.ts's detectedFoods                              *)
(*   imageFetches, geminiCalls, catalogReads : the outgoing calls the run  *)
(*       has made so far                                                   *)
(*   GOOGLE_AI_KEY : whether the function's environment sets the key       *)
(*   cpc, session, detecting, error, detectedFoods, customFood : the       *)
(*       FoodDetection component (detectedFoods is its edit list,          *)
(*       customFood the two fields of "Add Custom Food")                   *)
(***************************************************************************)
VARIABLES request, hpc, gemini, detected, response,
          imageFetches, geminiCalls, catalogReads, GOOGLE_AI_KEY,
          cpc, session, detecting, error, detectedFoods, customFood

(***************************************************************************)
(* The store (tables of the migration) and the app sessions that save and  *)
(* delete meals.                                                           *)
(*   meals, meal_items, daily_summaries : the tables, as sets of rows;     *)
(*       columns that nothing here reads (meal_type, meal_time, image_url, *)
(*       notes, water_intake_ml, timestamps) are left out                  *)
(*   nextMealId : the next generated meals.id                              *)
(*   today      : the calendar day new Date() falls on                     *)
(*   user[c]    : the signed-in user of app session c                      *)
(*   activeTab[c], capturedImage[c] : MainApp's state                      *)
(*   spc[c], foods[c], mealDate[c], mealData[c], existingSummary[c] :      *)
(*       where handleFoodConfirmed stands, and its locals                  *)
(*   shownMeals[c] : the ids of MealHistory's meals state, the list on     *)
(*       screen; empty while the component is not mounted                  *)
(***************************************************************************)
VARIABLES meals, meal_items, daily_summaries, nextMealId, today,
          user, activeTab, capturedImage,
          spc, foods, mealDate, mealData, existingSummary, shownMeals

(***************************************************************************)
(* The profile and the meal plans: the tables user_profiles and            *)
(* meal_recommendations and the MealRecommendations component of session   *)
(* c1.                                                                     *)
(*   user_profiles[u] : the stored profile of u, or NoProfile              *)
(*   meal_recommendations, nextRecId : the table and its next row id       *)
(*   userProfile, recommendations, loading : the component's state         *)
(*   lpc : whether loadUserProfile is under way                            *)
(*   rpc, pending : where generateRecommendations stands, and the          *)
(*       recommendations it has still to insert                            *)
(*   alert : the message of the alert() on screen, if any                  *)
(***************************************************************************)
VARIABLES user_profiles, meal_recommendations, nextRecId,
          userProfile, recommendations, loading, lpc, rpc, pending, alert

recSide == <<user_profiles, meal_recommendations, nextRecId,
             userProfile, recommendations, loading, lpc, rpc, pending, alert>>

storeVars == <<meals, meal_items, daily_summaries, nextMealId>>

appVars == <<user, activeTab, capturedImage>>

saveVars == <<spc, foods, mealDate, mealData, existingSummary>>

saveSide == <<storeVars, today, appVars, saveVars, shownMeals>>

handlerVars == <<request, hpc, gemini, detected, response,
                 imageFetches, geminiCalls, catalogReads>>

clientVars == <<cpc, session, detecting, error, detectedFoods, customFood>>

detectSide == <<handlerVars, GOOGLE_AI_KEY, clientVars>>

vars == <<detectSide, saveSide, recSide>>

(***************************************************************************)
(* The app sessions, the users and the food lists a save can confirm.      *)
(***************************************************************************)
\* useState({ name: '', portionGrams: 100 }), also set after each add
EmptyCustomFood == [name |-> <<>>, portionGrams |-> 100]

Clients == {"c1", "c2"}

Users == {"u1", "u2"}

Tabs == {"dashboard", "capture", "history", "recommendations", "profile"}

\* the fields of a record of the edit list (interface DetectedFood)
AsDetectedFood(rec) ==
    [id |-> rec.id, name |-> rec.name, portionGrams |-> rec.portionGrams,
     calories |-> rec.calories, protein |-> rec.protein,
     carbs |-> rec.carbs, fat |-> rec.fat]

\* records an edit list can hold at confirmation: two matched foods and one
\* that is not in the catalog
ChickenBreast150 ==
    AsDetectedFood(MatchedRecord(
        [name |-> ChickenBreast, portionGrams |-> 150, confidence |-> 9],
        Row(1, ChickenBreast, 1650, 310, 0, 36)))

BrownRice125 ==
    AsDetectedFood(MatchedRecord(
        [name |-> BrownRice, portionGrams |-> 125, confidence |-> 9],
        Row(2, BrownRice, 1110, 26, 230, 9)))

UnicornMeat100 ==
    AsDetectedFood(UnmatchedRecord(
        [name |-> <<"U","n","i","c","o","r","n"," ","M","e","a","t">>,
         portionGrams |-> 100, confidence |-> 6], 1))

\* the lists Save Meal is clicked with: a matched food alone (248 kcal), and a
\* matched food with an unmatched one (139 kcal).  The button is disabled on
\* an empty list (FoodDetection.tsx:272).
ConfirmedLists ==
    { <<ChickenBreast150>>, <<BrownRice125, UnicornMeat100>> }

NoSummary ==
    [user_id |-> "none", summary_date |-> 0, total_calories |-> 0,
     total_protein |-> 0, total_carbs |-> 0, total_fat |-> 0]

(***************************************************************************)
(* JavaScript numbers that are not finite.  A portion typed as 0 makes the *)
(* next ratio of updatePortion 0/0 or g/0; NaN and the two infinities are  *)
(* encoded as integers no finite quantity of the model comes near, the     *)
(* negative infinity being -Infinity.                                      *)
(***************************************************************************)
Infinity == 1000000

NaN == 1000001

IsFinite(x) == x \notin {NaN, Infinity, -Infinity}

Sgn(x) == IF x < 0 THEN -1 ELSE 1

Abs(x) == IF x < 0 THEN -x ELSE x

\* a + b on JavaScript numbers
Plus(a, b) ==
    IF a = NaN \/ b = NaN THEN NaN
    ELSE IF ~IsFinite(a) /\ ~IsFinite(b) THEN (IF a = b THEN a ELSE NaN)
    ELSE IF ~IsFinite(a) THEN a
    ELSE IF ~IsFinite(b) THEN b
    ELSE a + b

\* foods.reduce((sum, f) => sum + f[field], 0)
RECURSIVE Reduce(_, _)
Reduce(fs, field) ==
    IF fs = <<>> THEN 0
    ELSE Plus(Reduce(SubSeq(fs, 1, Len(fs) - 1), field), fs[Len(fs)][field])

\* lines 41-44 of MainApp
Totals(fs) ==
    [calories |-> Reduce(fs, "calories"), protein |-> Reduce(fs, "protein"),
     carbs |-> Reduce(fs, "carbs"), fat |-> Reduce(fs, "fat")]

DetectInit(key) ==
    /\ request = NoRequest
    /\ hpc = "idle"
    /\ gemini = NoCall
    /\ detected = <<>>
    /\ response = NoResponse
    /\ imageFetches = 0
    /\ geminiCalls = 0
    /\ catalogReads = 0
    /\ GOOGLE_AI_KEY = key
    /\ cpc = "unmounted"
    /\ session = FALSE
    /\ detecting = TRUE
    /\ error = Undefined
    /\ detectedFoods = <<>>
    /\ customFood = EmptyCustomFood

\* empty tables; session c1 is u1's, session c2 belongs to other
SaveInit(other) ==
    /\ meals = {}
    /\ meal_items = {}
    /\ daily_summaries = {}
    /\ nextMealId = 1
    /\ today = 1
    /\ user = [c \in Clients |-> IF c = "c1" THEN "u1" ELSE other]
    /\ activeTab = [c \in Clients |-> "dashboard"]
    /\ capturedImage = [c \in Clients |-> FALSE]
    /\ spc = [c \in Clients |-> "idle"]
    /\ foods = [c \in Clients |-> <<>>]
    /\ mealDate = [c \in Clients |-> 0]
    /\ mealData = [c \in Clients |-> 0]
    /\ existingSummary = [c \in Clients |-> NoSummary]
    /\ shownMeals = [c \in Clients |-> {}]

\* no row of user_profiles has the column set (NULL, which NaN stands for
\* in a row) and no row at all is NoProfile
NoProfile ==
    [stored |-> FALSE, daily_calorie_target |-> NaN, protein_target |-> NaN,
     carbs_target |-> NaN, fat_target |-> NaN]

\* no profile is stored, no plan was generated, and the component has its
\* useState values
RecInit ==
    /\ user_profiles = [u \in Users |-> NoProfile]
    /\ meal_recommendations = {}
    /\ nextRecId = 1
    /\ userProfile = NoProfile
    /\ recommendations = <<>>
    /\ loading = FALSE
    /\ lpc = "idle"
    /\ rpc = "idle"
    /\ pending = <<>>
    /\ alert = Undefined

InitDetect ==
    (\E key \in BOOLEAN : DetectInit(key)) /\ SaveInit("u1") /\ RecInit

InitSeqSave == DetectInit(TRUE) /\ SaveInit("u2") /\ RecInit

InitSave == DetectInit(TRUE) /\ (\E other \in Users : SaveInit(other)) /\ RecInit

\* a request reaches the handler
Arrive(req) ==
    /\ request' = req
    /\ hpc' = "start"
    /\ gemini' = NoCall
    /\ detected' = <<>>
    /\ response' = NoResponse
    /\ imageFetches' = 0
    /\ geminiCalls' = 0
    /\ catalogReads' = 0

\* the response has been delivered; the run's locals are gone
Forget ==
    /\ request' = NoRequest
    /\ hpc' = "idle"
    /\ gemini' = NoCall
    /\ detected' = <<>>
    /\ response' = NoResponse
    /\ imageFetches' = 0
    /\ geminiCalls' = 0
    /\ catalogReads' = 0

\* the handler returns res
Respond(res) ==
    /\ response' = res
    /\ hpc' = "done"

(***************************************************************************)
(* FoodDetection.tsx                                                       *)
(***************************************************************************)
\* MainApp renders <FoodDetection imageUrl={capturedImage}> once an image is
\* captured: useState initial values, then the effect runs detectFood
Mount ==
    /\ cpc = "unmounted"
    /\ hpc = "idle"
    /\ cpc' = "detectFood"
    /\ detecting' = TRUE
    /\ error' = Undefined
    /\ detectedFoods' = <<>>
    /\ customFood' = EmptyCustomFood
    /\ UNCHANGED <<session, handlerVars, GOOGLE_AI_KEY, saveSide, recSide>>

\* detectFood, lines 33-54: getSession, then either the early return or the
\* POST with the bearer token
DetectFoodStart ==
    /\ cpc = "detectFood"
    /\ hpc = "idle"
    /\ \E s \in BOOLEAN :
        /\ session' = s
        /\ IF ~s
           THEN /\ error' = "Please sign in to use food detection"
                /\ detecting' = FALSE
                /\ cpc' = "settled"
                /\ UNCHANGED handlerVars
           ELSE /\ error' = Undefined
                /\ detecting' = TRUE
                /\ cpc' = "awaiting"
                /\ Arrive([method |-> "POST", json |-> TRUE,
                           imageUrl |-> CapturedImage, auth |-> TRUE,
                           from |-> "app"])
    /\ UNCHANGED <<detectedFoods, customFood, GOOGLE_AI_KEY, saveSide, recSide>>

\* a run whose failure and empty outcomes never reach the finally block
DetectFoodSettleNoFinally ==
    /\ cpc = "awaiting"
    /\ hpc = "done"
    /\ request.from = "app"
    /\ IF response.status # 200
       THEN /\ error' = "Failed to detect food. Please add foods manually."
            /\ UNCHANGED <<detectedFoods, detecting>>
       ELSE IF Len(response.foods) > 0
       THEN /\ detectedFoods' = response.foods
            /\ detecting' = FALSE
            /\ UNCHANGED error
       ELSE /\ error' = "No foods detected in the image. Please add foods manually below."
            /\ UNCHANGED <<detectedFoods, detecting>>
    /\ cpc' = "settled"
    /\ Forget
    /\ UNCHANGED <<session, customFood, GOOGLE_AI_KEY, saveSide, recSide>>

\* detectFood, lines 56-72: the response arrives
DetectFoodSettle ==
    /\ cpc = "awaiting"
    /\ hpc = "done"
    /\ request.from = "app"
    /\ IF response.status # 200
       THEN /\ error' = "Failed to detect food. Please add foods manually."
            /\ UNCHANGED detectedFoods
       ELSE IF Len(response.foods) > 0
       THEN /\ detectedFoods' = response.foods
            /\ UNCHANGED error
       ELSE /\ error' = "No foods detected in the image. Please add foods manually below."
            /\ UNCHANGED detectedFoods
    /\ detecting' = FALSE
    /\ cpc' = "settled"
    /\ Forget
    /\ UNCHANGED <<session, customFood, GOOGLE_AI_KEY, saveSide, recSide>>

\* detectFood, lines 66-72: fetch rejects (the response never arrives) or
\* response.json() throws (its body does not parse); catch, then finally
DetectFoodThrows ==
    /\ cpc = "awaiting"
    /\ hpc = "done"
    /\ request.from = "app"
    /\ error' = "Failed to detect food. Please add foods manually."
    /\ detecting' = FALSE
    /\ cpc' = "settled"
    /\ Forget
    /\ UNCHANGED <<session, detectedFoods, customFood, GOOGLE_AI_KEY, saveSide,
                   recSide>>

\* onCancel or a confirmed save: MainApp clears capturedImage and the
\* component goes away
Unmount ==
    /\ cpc = "settled"
    /\ cpc' = "unmounted"
    /\ session' = FALSE
    /\ detecting' = TRUE
    /\ error' = Undefined
    /\ detectedFoods' = <<>>
    /\ customFood' = EmptyCustomFood
    /\ UNCHANGED <<handlerVars, GOOGLE_AI_KEY, saveSide, recSide>>

(***************************************************************************)
(* Any other HTTP client of the endpoint.                                  *)
(***************************************************************************)
DirectRequest ==
    /\ hpc = "idle"
    /\ cpc = "unmounted"
    /\ \E req \in Requests : Arrive(req)
    /\ UNCHANGED <<clientVars, GOOGLE_AI_KEY, saveSide, recSide>>

DirectDone ==
    /\ hpc = "done"
    /\ request.from = "direct"
    /\ Forget
    /\ UNCHANGED <<clientVars, GOOGLE_AI_KEY, saveSide, recSide>>

(***************************************************************************)
(* detect-food/index.ts                                                    *)
(***************************************************************************)
\* lines 19-24
HandleOptions ==
    /\ hpc = "start"
    /\ request.method = "OPTIONS"
    /\ Respond([status |-> 200, foods |-> <<>>, message |-> Undefined,
                error |-> Undefined])
    /\ UNCHANGED <<request, gemini, detected, imageFetches, geminiCalls,
                   catalogReads, clientVars, GOOGLE_AI_KEY, saveSide, recSide>>

\* lines 26-37: req.json() and the imageUrl check
HandleBody ==
    /\ hpc = "start"
    /\ request.method # "OPTIONS"
    /\ IF ~request.json THEN Respond(Failure500)
       ELSE IF Falsy(request.imageUrl) THEN Respond(Required400)
       ELSE /\ hpc' = "fetchImage"
            /\ UNCHANGED response
    /\ UNCHANGED <<request, gemini, detected, imageFetches, geminiCalls,
                   catalogReads, clientVars, GOOGLE_AI_KEY, saveSide, recSide>>

\* lines 44-49: fetch(imageUrl) and the base64 encoding; either can throw
HandleFetchImage ==
    /\ hpc = "fetchImage"
    /\ imageFetches' = imageFetches + 1
    /\ \E ok \in BOOLEAN :
        IF ok THEN /\ hpc' = "inference"
                   /\ UNCHANGED response
        ELSE Respond(Failure500)
    /\ UNCHANGED <<request, gemini, detected, geminiCalls, catalogReads,
                   clientVars, GOOGLE_AI_KEY, saveSide, recSide>>

\* lines 52-101: the call to the vision service when the key is set, the
\* parsing of its answer, and the empty answer
HandleInference ==
    /\ hpc = "inference"
    /\ IF ~GOOGLE_AI_KEY
       THEN /\ Respond(Empty200)
            /\ UNCHANGED <<gemini, detected, geminiCalls>>
       ELSE /\ geminiCalls' = geminiCalls + 1
            /\ \E o \in GeminiOutcomes :
                /\ gemini' = o
                /\ IF GeminiThrows(o)
                   THEN /\ Respond(Failure500)
                        /\ UNCHANGED detected
                   ELSE IF Len(GeminiFoods(o)) = 0
                   THEN /\ Respond(Empty200)
                        /\ UNCHANGED detected
                   ELSE /\ detected' = GeminiFoods(o)
                        /\ hpc' = "enrich"
                        /\ UNCHANGED response
    /\ UNCHANGED <<request, imageFetches, catalogReads, clientVars,
                   GOOGLE_AI_KEY, saveSide, recSide>>

\* lines 104-149: one catalog query per candidate, then the 200 response
HandleEnrich ==
    /\ hpc = "enrich"
    /\ catalogReads' = catalogReads + Len(detected)
    /\ \E enrichedFoods \in EnrichAll(detected) : Respond(Foods200(enrichedFoods))
    /\ UNCHANGED <<request, gemini, detected, imageFetches, geminiCalls,
                   clientVars, GOOGLE_AI_KEY, saveSide, recSide>>

NextDetect ==
    \/ Mount
    \/ DetectFoodStart
    \/ DetectFoodSettle
    \/ DetectFoodThrows
    \/ Unmount
    \/ DirectRequest
    \/ DirectDone
    \/ HandleOptions
    \/ HandleBody
    \/ HandleFetchImage
    \/ HandleInference
    \/ HandleEnrich

SpecDetect == InitDetect /\ [][NextDetect]_vars

(***************************************************************************)
(* MainApp: tabs, the captured image, and handleFoodConfirmed.  Every      *)
(* store call below takes ok: whether the store accepts it.                *)
(***************************************************************************)
\* the tab buttons; FoodDetection and its Save Meal button are on screen only
\* while the tab is capture and an image is held
setActiveTab(c, tab) ==
    /\ activeTab[c] # tab
    /\ activeTab' = [activeTab EXCEPT ![c] = tab]
    /\ shownMeals' = [shownMeals EXCEPT ![c] = {}]
    /\ UNCHANGED <<detectSide, recSide, storeVars, today, user, capturedImage, saveVars>>

\* handleImageCapture (lines 30-36)
handleImageCapture(c) ==
    /\ activeTab[c] = "capture"
    /\ ~capturedImage[c]
    /\ capturedImage' = [capturedImage EXCEPT ![c] = TRUE]
    /\ UNCHANGED <<detectSide, recSide, storeVars, today, shownMeals, user, activeTab, saveVars>>

\* handleCancelDetection (lines 113-115)
handleCancelDetection(c) ==
    /\ activeTab[c] = "capture"
    /\ capturedImage[c]
    /\ capturedImage' = [capturedImage EXCEPT ![c] = FALSE]
    /\ UNCHANGED <<detectSide, recSide, storeVars, today, shownMeals, user, activeTab, saveVars>>

\* handleFoodConfirmed, lines 38-48: Save Meal is clicked with the list fs;
\* the totals and the meal's date are fixed here
StartSave(c, fs) ==
    /\ spc[c] = "idle"
    /\ activeTab[c] = "capture"
    /\ capturedImage[c]
    /\ nextMealId <= MaxMeals
    /\ spc' = [spc EXCEPT ![c] = "insertMeal"]
    /\ foods' = [foods EXCEPT ![c] = fs]
    /\ mealDate' = [mealDate EXCEPT ![c] = today]
    /\ UNCHANGED <<detectSide, recSide, storeVars, today, shownMeals, appVars, mealData,
                   existingSummary>>

\* lines 109-110, when the handler has run to its end
EndSave(c) ==
    /\ spc' = [spc EXCEPT ![c] = "idle"]
    /\ foods' = [foods EXCEPT ![c] = <<>>]
    /\ mealDate' = [mealDate EXCEPT ![c] = 0]
    /\ mealData' = [mealData EXCEPT ![c] = 0]
    /\ existingSummary' = [existingSummary EXCEPT ![c] = NoSummary]
    /\ capturedImage' = [capturedImage EXCEPT ![c] = FALSE]
    /\ activeTab' = [activeTab EXCEPT ![c] = "dashboard"]
    /\ shownMeals' = [shownMeals EXCEPT ![c] = {}]

\* lines 50-66: insert into meals ... select().single(); a rejected insert
\* leaves mealData null and the handler skips to its end
InsertMeal(c, ok) ==
    /\ spc[c] = "insertMeal"
    /\ IF ok
       THEN /\ meals' = meals \cup
                  {[id |-> nextMealId, user_id |-> user[c],
                    meal_date |-> mealDate[c],
                    total_calories |-> Totals(foods[c]).calories,
                    total_protein |-> Totals(foods[c]).protein,
                    total_carbs |-> Totals(foods[c]).carbs,
                    total_fat |-> Totals(foods[c]).fat]}
            /\ nextMealId' = nextMealId + 1
            /\ mealData' = [mealData EXCEPT ![c] = nextMealId]
            /\ spc' = [spc EXCEPT ![c] = "insertItems"]
            /\ UNCHANGED <<foods, mealDate, existingSummary, capturedImage,
                           activeTab, shownMeals>>
       ELSE /\ EndSave(c)
            /\ UNCHANGED <<meals, nextMealId>>
    /\ UNCHANGED <<detectSide, recSide, meal_items, daily_summaries, today, user>>

\* JSON has no NaN: the client sends it as null, and the store holds NULL,
\* which NaN stands for in the rows below.  meal_items.calories is NOT NULL
\* (part_001:624) and a batch with such a row is rejected whole.
ItemsAccepted(fs) == \A i \in 1..Len(fs) : IsFinite(fs[i].calories)

\* Number(v) of a stored total: Number(null) is 0
Number(v) == IF v = NaN THEN 0 ELSE v

\* lines 67-77: one batch insert of the meal's items; its error is not read
InsertItems(c, ok) ==
    /\ spc[c] = "insertItems"
    /\ meal_items' =
          IF ok /\ ItemsAccepted(foods[c]) /\ \E m \in meals : m.id = mealData[c]
          THEN meal_items \cup
                 {[meal_id |-> mealData[c], n |-> i,
                   food_name |-> foods[c][i].name,
                   portion_size_grams |-> foods[c][i].portionGrams,
                   calories |-> foods[c][i].calories,
                   protein |-> foods[c][i].protein,
                   carbs |-> foods[c][i].carbs,
                   fat |-> foods[c][i].fat] : i \in 1..Len(foods[c])}
          ELSE meal_items
    /\ spc' = [spc EXCEPT ![c] = "readSummary"]
    /\ UNCHANGED <<detectSide, recSide, meals, daily_summaries, nextMealId, today, shownMeals,
                   appVars, foods, mealDate, mealData, existingSummary>>

\* the daily_summaries row of (u, d), as a set of at most one row
SummaryRows(u, d) ==
    {r \in daily_summaries : r.user_id = u /\ r.summary_date = d}

\* lines 79-84: select ... maybeSingle(); data is null when there is no row
\* and when the read fails
ReadSummary(c, ok) ==
    /\ spc[c] = "readSummary"
    /\ existingSummary' =
          [existingSummary EXCEPT ![c] =
              IF ok /\ SummaryRows(user[c], mealDate[c]) # {}
              THEN CHOOSE r \in SummaryRows(user[c], mealDate[c]) : TRUE
              ELSE NoSummary]
    /\ spc' = [spc EXCEPT ![c] = "writeSummary"]
    /\ UNCHANGED <<detectSide, recSide, storeVars, today, shownMeals, appVars, foods, mealDate,
                   mealData>>

\* an update that replaces the stored totals by the meal's
OverwrittenSummary(existing, t) ==
    [existing EXCEPT !.total_calories = t.calories,
                     !.total_protein = t.protein,
                     !.total_carbs = t.carbs,
                     !.total_fat = t.fat]

\* lines 89-95: the row the update writes, from the row that was read
UpdatedSummary(existing, t) ==
    [existing EXCEPT !.total_calories = Plus(Number(@), t.calories),
                     !.total_protein = Plus(Number(@), t.protein),
                     !.total_carbs = Plus(Number(@), t.carbs),
                     !.total_fat = Plus(Number(@), t.fat)]

\* lines 98-105: the row the insert writes
InsertedSummary(u, d, t) ==
    [user_id |-> u, summary_date |-> d, total_calories |-> t.calories,
     total_protein |-> t.protein, total_carbs |-> t.carbs,
     total_fat |-> t.fat]

\* lines 86-110: update of the row that was read (by its id), or insert of a
\* new row, which UNIQUE(user_id, summary_date) rejects when the day has one;
\* neither error is read; then the capture session is reset
WriteSummary(c, ok) ==
    /\ spc[c] = "writeSummary"
    /\ daily_summaries' =
          IF ~ok THEN daily_summaries
          ELSE IF existingSummary[c] # NoSummary
          THEN {IF r.user_id = existingSummary[c].user_id
                   /\ r.summary_date = existingSummary[c].summary_date
                THEN UpdatedSummary(existingSummary[c], Totals(foods[c]))
                ELSE r : r \in daily_summaries}
          ELSE IF SummaryRows(user[c], mealDate[c]) = {}
          THEN daily_summaries \cup
                 {InsertedSummary(user[c], mealDate[c], Totals(foods[c]))}
          ELSE daily_summaries
    /\ EndSave(c)
    /\ UNCHANGED <<detectSide, recSide, meals, meal_items, nextMealId, today, user>>

(***************************************************************************)
(* MealHistory (MealHistory.tsx).  loadMeals runs on mount and on every    *)
(* change of the filter; deleteMeal (lines 52-63) is delete from meals     *)
(* where id = mealId, for a meal of the list on screen.  Row-level         *)
(* security limits it to the user's own meals, and meal_items.meal_id is   *)
(* declared ON DELETE CASCADE.                                             *)
(***************************************************************************)
\* loadMeals (lines 28-50): the user's meals, or no change of the list when
\* the read fails (if (data) setMeals(data))
loadMeals(c, ok) ==
    /\ activeTab[c] = "history"
    /\ shownMeals' =
          IF ok
          THEN [shownMeals EXCEPT ![c] =
                   {m.id : m \in {x \in meals : x.user_id = user[c]}}]
          ELSE shownMeals
    /\ UNCHANGED <<detectSide, recSide, storeVars, today, appVars, saveVars>>

\* a delete that leaves the meal's items in the store
deleteMealKeepsItems(c, mealId, ok) ==
    /\ activeTab[c] = "history"
    /\ mealId \in shownMeals[c]
    /\ IF ok
       THEN /\ meals' = {m \in meals : m.id # mealId}
            /\ shownMeals' = [shownMeals EXCEPT ![c] = @ \ {mealId}]
       ELSE UNCHANGED <<meals, shownMeals>>
    /\ UNCHANGED <<detectSide, recSide, meal_items, daily_summaries,
                   nextMealId, today, appVars, saveVars>>

\* the bin button of a listed meal, confirmed; the list loses the meal only
\* when the store reports no error (lines 60-62)
deleteMeal(c, mealId, ok) ==
    /\ activeTab[c] = "history"
    /\ mealId \in shownMeals[c]
    /\ IF ok
       THEN /\ meals' = {m \in meals : m.id # mealId}
            /\ meal_items' = {it \in meal_items : it.meal_id # mealId}
            /\ shownMeals' = [shownMeals EXCEPT ![c] = @ \ {mealId}]
       ELSE UNCHANGED <<meals, meal_items, shownMeals>>
    /\ UNCHANGED <<detectSide, recSide, daily_summaries, nextMealId, today, appVars,
                   saveVars>>

\* the calendar day changes
Midnight ==
    /\ today < MaxDay
    /\ today' = today + 1
    /\ UNCHANGED <<detectSide, recSide, storeVars, appVars, saveVars, shownMeals>>

(***************************************************************************)
(* SpecSeqSave: one app session (c1) saves and deletes meals, one handler  *)
(* run at a time, every store call accepted.                               *)
(* SpecSave: two sessions save, and the steps of their handlers            *)
(* interleave freely; every store call accepted.                           *)
(* Neither visits the recommendations and profile tabs.                    *)
(***************************************************************************)
NextSeqSave ==
    \/ \E tab \in {"dashboard", "capture", "history"} : setActiveTab("c1", tab)
    \/ handleImageCapture("c1")
    \/ handleCancelDetection("c1")
    \/ \E fs \in ConfirmedLists : StartSave("c1", fs)
    \/ InsertMeal("c1", TRUE)
    \/ InsertItems("c1", TRUE)
    \/ ReadSummary("c1", TRUE)
    \/ WriteSummary("c1", TRUE)
    \/ loadMeals("c1", TRUE)
    \/ \E mealId \in 1..MaxMeals : deleteMeal("c1", mealId, TRUE)
    \/ Midnight

SpecSeqSave == InitSeqSave /\ [][NextSeqSave]_vars

NextSave ==
    \/ \E c \in Clients : setActiveTab(c, "capture")
    \/ \E c \in Clients : handleImageCapture(c)
    \/ \E c \in Clients, fs \in ConfirmedLists : StartSave(c, fs)
    \/ \E c \in Clients : InsertMeal(c, TRUE)
    \/ \E c \in Clients : InsertItems(c, TRUE)
    \/ \E c \in Clients : ReadSummary(c, TRUE)
    \/ \E c \in Clients : WriteSummary(c, TRUE)
    \/ Midnight

SpecSave == InitSave /\ [][NextSave]_vars

(***************************************************************************)
(* SpecFail: one app session (c1) saves and deletes meals while the store  *)
(* may reject any call, and the page may be closed or reloaded between two *)
(* steps of handleFoodConfirmed.                                           *)
(***************************************************************************)
\* the page is closed or reloaded while the handler waits for the store:
\* the remaining steps never run, and MainApp starts again from its
\* useState values (lines 24-28); the store keeps what was written
Interrupt(c) ==
    /\ spc[c] # "idle"
    /\ EndSave(c)
    /\ UNCHANGED <<detectSide, recSide, storeVars, today, user>>

NextFail ==
    \/ \E tab \in {"dashboard", "capture", "history"} : setActiveTab("c1", tab)
    \/ handleImageCapture("c1")
    \/ handleCancelDetection("c1")
    \/ \E fs \in ConfirmedLists : StartSave("c1", fs)
    \/ \E ok \in BOOLEAN : InsertMeal("c1", ok)
    \/ \E ok \in BOOLEAN : InsertItems("c1", ok)
    \/ \E ok \in BOOLEAN : ReadSummary("c1", ok)
    \/ \E ok \in BOOLEAN : WriteSummary("c1", ok)
    \/ Interrupt("c1")
    \/ \E ok \in BOOLEAN : loadMeals("c1", ok)
    \/ \E mealId \in 1..MaxMeals, ok \in BOOLEAN : deleteMeal("c1", mealId, ok)
    \/ Midnight

SpecFail == InitSeqSave /\ [][NextFail]_vars

(***************************************************************************)
(* SpecHistory: one app session (c1) saves meals, every call of the save   *)
(* accepted, and lists and deletes them in Meal History, where the store   *)
(* may reject the read and the delete.                                     *)
(***************************************************************************)
NextHistory ==
    \/ \E tab \in {"dashboard", "capture", "history"} : setActiveTab("c1", tab)
    \/ handleImageCapture("c1")
    \/ \E fs \in ConfirmedLists : StartSave("c1", fs)
    \/ InsertMeal("c1", TRUE)
    \/ InsertItems("c1", TRUE)
    \/ ReadSummary("c1", TRUE)
    \/ WriteSummary("c1", TRUE)
    \/ \E ok \in BOOLEAN : loadMeals("c1", ok)
    \/ \E mealId \in 1..MaxMeals, ok \in BOOLEAN : deleteMeal("c1", mealId, ok)

SpecHistory == InitSeqSave /\ [][NextHistory]_vars

(***************************************************************************)
(* FoodDetection.tsx: the edit list of one capture session (app session    *)
(* c1), from the handler's answer to the end of the session.               *)
(***************************************************************************)
\* the longest edit list followed
MaxFoods == 2

\* what the user types into a portion field: a cleared field reads as 0
\* (Number("") is 0), and min="1" does not stop a typed value
Grams == {-50, 0, 100}

Dal == <<"D","a","l">>

\* what the user types into the two fields of "Add Custom Food"
CustomNames == {<<>>, Dal}

CustomGrams == {0, 100}

\* Date.now() of two adds: the same millisecond or a later one
Nows == {1, 2}

\* the candidate lists whose enrichment the session starts from
EditCandidates ==
    { <<[name |-> ChickenBreast, portionGrams |-> 150, confidence |-> 9]>>,
      <<[name |-> <<"B","r","o","w","n","_","R","i","c","e">>,
         portionGrams |-> 125, confidence |-> 6],
        [name |-> <<"U","n","i","c","o","r","n"," ","M","e","a","t">>,
         portionGrams |-> 150, confidence |-> 9]>> }

\* the handler's run at its end, having answered res (from the candidates cs
\* of the model's text o)
Run(o, cs, res) ==
    [request |-> [method |-> "POST", json |-> TRUE, imageUrl |-> CapturedImage,
                  auth |-> TRUE, from |-> "app"],
     gemini |-> o, detected |-> cs, response |-> res,
     catalogReads |-> IF res.status = 200 THEN Len(cs) ELSE 0]

\* the runs the session can start from: foods, nothing detected, a failure
EditRuns ==
    UNION {{Run([kind |-> "text",
                 text |-> <<LB>> \o [i \in 1..Len(cs) |-> Item(cs[i])] \o <<RB>>],
                cs, Foods200(fs)) : fs \in EnrichAll(cs)} : cs \in EditCandidates}
      \cup {Run([kind |-> "rejected", text |-> <<>>], <<>>, Empty200),
            Run([kind |-> "network_error", text |-> <<>>], <<>>, Failure500)}

\* a rescaling against the 100 g basis of the catalog
RescaledPer100(x, grams, portionGrams) ==
    IF x = NaN THEN NaN ELSE MathRound(x * grams, 100)

\* Math.round(x * ratio) with ratio = grams / portionGrams (lines 78-84); x
\* is the calories, or the tenths of a nutrient, for which
\* Math.round(x * ratio * 10) / 10 is the same rounding.  grams and
\* portionGrams are finite: a portion is only ever set to a typed number.
Rescaled(x, grams, portionGrams) ==
    IF x = NaN \/ (portionGrams = 0 /\ grams = 0) THEN NaN
    ELSE IF ~IsFinite(x)
    THEN (IF grams = 0 THEN NaN ELSE Sgn(x) * Sgn(grams) * Sgn(portionGrams) * Infinity)
    ELSE IF portionGrams = 0
    THEN (IF x = 0 THEN NaN ELSE Sgn(x) * Sgn(grams) * Infinity)
    ELSE MathRound(x * grams * Sgn(portionGrams), Abs(portionGrams))

\* the record updatePortion returns for a food with the id (lines 79-85)
WithPortion(food, grams) ==
    [food EXCEPT !.portionGrams = grams,
                 !.calories = Rescaled(@, grams, food.portionGrams),
                 !.protein = Rescaled(@, grams, food.portionGrams),
                 !.carbs = Rescaled(@, grams, food.portionGrams),
                 !.fat = Rescaled(@, grams, food.portionGrams)]

\* foods.map(food => food.id === id ? {...} : food)
MapPortion(fs, id, grams) ==
    [i \in 1..Len(fs) |->
        IF fs[i].id = id THEN WithPortion(fs[i], grams) ELSE fs[i]]

\* foods.filter(f => f.id !== id)
RECURSIVE Filter(_, _)
Filter(fs, id) ==
    IF fs = <<>> THEN <<>>
    ELSE IF Head(fs).id # id THEN <<Head(fs)>> \o Filter(Tail(fs), id)
    ELSE Filter(Tail(fs), id)

\* a total that keeps only the last record's values
LastNutrition(fs) ==
    IF fs = <<>> THEN [calories |-> 0, protein |-> 0, carbs |-> 0, fat |-> 0]
    ELSE [calories |-> fs[Len(fs)].calories, protein |-> fs[Len(fs)].protein,
          carbs |-> fs[Len(fs)].carbs, fat |-> fs[Len(fs)].fat]

\* totalNutrition (lines 112-120): one reduce over an accumulator object
RECURSIVE totalNutrition(_)
totalNutrition(fs) ==
    IF fs = <<>> THEN [calories |-> 0, protein |-> 0, carbs |-> 0, fat |-> 0]
    ELSE LET acc == totalNutrition(SubSeq(fs, 1, Len(fs) - 1))
             food == fs[Len(fs)]
         IN [calories |-> Plus(acc.calories, food.calories),
             protein |-> Plus(acc.protein, food.protein),
             carbs |-> Plus(acc.carbs, food.carbs),
             fat |-> Plus(acc.fat, food.fat)]

\* MainApp renders FoodDetection (lines 195-201)
Rendered == activeTab["c1"] = "capture" /\ capturedImage["c1"]

\* the list, the totals and the buttons are on screen (!detecting); the
\* edits followed are those made while no save of the session is under way
Editing == Rendered /\ cpc = "settled" /\ spc["c1"] = "idle"

\* React removes the component once MainApp no longer renders it: its state
\* is discarded
Discarded ==
    /\ cpc' = "unmounted"
    /\ session' = FALSE
    /\ detecting' = TRUE
    /\ error' = Undefined
    /\ detectedFoods' = <<>>
    /\ customFood' = EmptyCustomFood

\* the portion field of a listed record changes (onChange, line 195)
updatePortion(id, grams) ==
    /\ Editing
    /\ \E i \in 1..Len(detectedFoods) : detectedFoods[i].id = id
    /\ detectedFoods' = MapPortion(detectedFoods, id, grams)
    /\ UNCHANGED <<handlerVars, GOOGLE_AI_KEY, cpc, session, detecting, error,
                   customFood, saveSide, recSide>>

\* the bin button of a listed record (lines 92-94)
removeFood(id) ==
    /\ Editing
    /\ \E i \in 1..Len(detectedFoods) : detectedFoods[i].id = id
    /\ detectedFoods' = Filter(detectedFoods, id)
    /\ UNCHANGED <<handlerVars, GOOGLE_AI_KEY, cpc, session, detecting, error,
                   customFood, saveSide, recSide>>

\* the two fields of "Add Custom Food" (onChange, lines 216 and 223)
setCustomFood(name, grams) ==
    /\ Editing
    /\ customFood # [name |-> name, portionGrams |-> grams]
    /\ \/ name = customFood.name
       \/ grams = customFood.portionGrams
    /\ customFood' = [name |-> name, portionGrams |-> grams]
    /\ UNCHANGED <<handlerVars, GOOGLE_AI_KEY, cpc, session, detecting, error,
                   detectedFoods, saveSide, recSide>>

\* the Add button (lines 96-110); now is Date.now()
addCustomFood(now) ==
    /\ Editing
    /\ Len(detectedFoods) < MaxFoods
    /\ IF customFood.name # <<>> /\ customFood.portionGrams > 0
       THEN /\ detectedFoods' = Append(detectedFoods,
                  [id |-> <<"now", now>>, name |-> customFood.name,
                   portionGrams |-> customFood.portionGrams,
                   calories |-> 0, protein |-> 0, carbs |-> 0, fat |-> 0])
            /\ customFood' = EmptyCustomFood
       ELSE UNCHANGED <<detectedFoods, customFood>>
    /\ UNCHANGED <<handlerVars, GOOGLE_AI_KEY, cpc, session, detecting, error,
                   saveSide, recSide>>

\* Save Meal (line 268), disabled on an empty list
onFoodConfirmed ==
    /\ Editing
    /\ Len(detectedFoods) > 0
    /\ StartSave("c1", detectedFoods)

\* a cancel that also takes the user's meals of the day back out of the store
onCancelUndoesDay ==
    /\ Editing
    /\ capturedImage' = [capturedImage EXCEPT !["c1"] = FALSE]
    /\ Discarded
    /\ meals' = {m \in meals : ~(m.user_id = user["c1"] /\ m.meal_date = today)}
    /\ meal_items' = {it \in meal_items : \E m \in meals' : m.id = it.meal_id}
    /\ daily_summaries' = daily_summaries \ SummaryRows(user["c1"], today)
    /\ UNCHANGED <<handlerVars, GOOGLE_AI_KEY, nextMealId, today, shownMeals, user,
                   activeTab, saveVars, recSide>>

\* Cancel (line 262) is handleCancelDetection (MainApp lines 113-115); the
\* render that follows removes the component
onCancel ==
    /\ Editing
    /\ capturedImage' = [capturedImage EXCEPT !["c1"] = FALSE]
    /\ Discarded
    /\ UNCHANGED <<handlerVars, GOOGLE_AI_KEY, storeVars, today, shownMeals, user,
                   activeTab, saveVars, recSide>>

\* a tab button other than Capture while the component is on screen, its
\* detection in flight or settled; the render that follows removes the
\* component, and capturedImage is not touched
LeaveCapture(tab) ==
    /\ Rendered
    /\ cpc # "unmounted"
    /\ spc["c1"] = "idle"
    /\ tab # "capture"
    /\ activeTab' = [activeTab EXCEPT !["c1"] = tab]
    /\ shownMeals' = [shownMeals EXCEPT !["c1"] = {}]
    /\ Discarded
    /\ UNCHANGED <<handlerVars, GOOGLE_AI_KEY, storeVars, today, user,
                   capturedImage, saveVars, recSide>>

\* the render after a save has reset the session (MainApp lines 109-110)
Unrender ==
    /\ ~Rendered
    /\ cpc # "unmounted"
    /\ Discarded
    /\ UNCHANGED <<handlerVars, GOOGLE_AI_KEY, saveSide, recSide>>

\* the answer to a detection whose component is gone: the state setters of
\* lines 62-71 act on nothing
LateResponse ==
    /\ cpc = "unmounted"
    /\ hpc = "done"
    /\ request.from = "app"
    /\ Forget
    /\ UNCHANGED <<clientVars, GOOGLE_AI_KEY, saveSide, recSide>>

\* a meal the user saved earlier in the day, with its item and the day's
\* summary
EarlierMeal ==
    [id |-> 0, user_id |-> "u1", meal_date |-> 1,
     total_calories |-> Totals(<<ChickenBreast150>>).calories,
     total_protein |-> Totals(<<ChickenBreast150>>).protein,
     total_carbs |-> Totals(<<ChickenBreast150>>).carbs,
     total_fat |-> Totals(<<ChickenBreast150>>).fat]

EarlierItem ==
    [meal_id |-> 0, n |-> 1, food_name |-> ChickenBreast150.name,
     portion_size_grams |-> ChickenBreast150.portionGrams,
     calories |-> ChickenBreast150.calories,
     protein |-> ChickenBreast150.protein,
     carbs |-> ChickenBreast150.carbs, fat |-> ChickenBreast150.fat]

\* session c1 is on the capture tab with an image; its component waits for
\* the handler's answer, which is ready; the store is empty or holds the
\* earlier meal
InitEdit ==
    /\ \E run \in EditRuns :
        /\ request = run.request
        /\ gemini = run.gemini
        /\ detected = run.detected
        /\ response = run.response
        /\ catalogReads = run.catalogReads
    /\ hpc = "done"
    /\ imageFetches = 1
    /\ geminiCalls = 1
    /\ GOOGLE_AI_KEY = TRUE
    /\ cpc = "awaiting"
    /\ session = TRUE
    /\ detecting = TRUE
    /\ error = Undefined
    /\ detectedFoods = <<>>
    /\ customFood = EmptyCustomFood
    /\ \E earlier \in BOOLEAN :
        /\ meals = IF earlier THEN {EarlierMeal} ELSE {}
        /\ meal_items = IF earlier THEN {EarlierItem} ELSE {}
        /\ daily_summaries =
              IF earlier
              THEN {InsertedSummary("u1", 1, Totals(<<ChickenBreast150>>))}
              ELSE {}
    /\ nextMealId = 1
    /\ today = 1
    /\ user = [c \in Clients |-> IF c = "c1" THEN "u1" ELSE "u2"]
    /\ activeTab = [c \in Clients |-> IF c = "c1" THEN "capture" ELSE "dashboard"]
    /\ capturedImage = [c \in Clients |-> c = "c1"]
    /\ spc = [c \in Clients |-> "idle"]
    /\ foods = [c \in Clients |-> <<>>]
    /\ mealDate = [c \in Clients |-> 0]
    /\ mealData = [c \in Clients |-> 0]
    /\ existingSummary = [c \in Clients |-> NoSummary]
    /\ shownMeals = [c \in Clients |-> {}]
    /\ RecInit

NextEdit ==
    \/ DetectFoodSettle
    \/ LateResponse
    \/ \E i \in 1..Len(detectedFoods) :
         \E grams \in Grams \cup {detectedFoods[i].portionGrams} :
            updatePortion(detectedFoods[i].id, grams)
    \/ \E i \in 1..Len(detectedFoods) : removeFood(detectedFoods[i].id)
    \/ \E name \in CustomNames, grams \in CustomGrams : setCustomFood(name, grams)
    \/ \E now \in Nows : addCustomFood(now)
    \/ onFoodConfirmed
    \/ InsertMeal("c1", TRUE)
    \/ InsertItems("c1", TRUE)
    \/ ReadSummary("c1", TRUE)
    \/ WriteSummary("c1", TRUE)
    \/ onCancel
    \/ \E tab \in {"dashboard", "history"} : LeaveCapture(tab)
    \/ Unrender

SpecEdit == InitEdit /\ [][NextEdit]_vars

(***************************************************************************)
(* MealRecommendations (part_001, lines 22-106) and the profile form's     *)
(* Calories field (UserProfile.tsx), for session c1.                       *)
(***************************************************************************)
\* the generations followed
MaxGenerations == 1

\* what the four fields of "Daily Nutrition Targets" save: the form's
\* initial values, or numbers typed over them, 0 when a field is cleared
\* (Number("") is 0); integers, as the columns are
Targets(cal, pro, carb, fat) ==
    [daily_calorie_target |-> cal, protein_target |-> pro,
     carbs_target |-> carb, fat_target |-> fat]

TargetInputs ==
    { Targets(2000, 150, 200, 65), Targets(0, 0, 0, 0),
      Targets(1800, 120, 0, 60), Targets(2500, 0, 250, 80) }

\* the templates of the three slots (nutrients in tenths, as elsewhere)
Food(nm, portion, cal, pro, carb, fat) ==
    [name |-> nm, portion |-> portion, calories |-> cal, protein |-> pro,
     carbs |-> carb, fat |-> fat]

BreakfastFoods ==
    << Food("Oatmeal", 60, 233, 102, 396, 42),
       Food("Eggs", 100, 155, 130, 11, 110),
       Food("Banana", 120, 107, 13, 276, 4),
       Food("Greek Yogurt", 150, 89, 150, 54, 6) >>

LunchFoods ==
    << Food("Chicken Breast", 150, 248, 465, 0, 54),
       Food("Brown Rice", 150, 167, 39, 345, 14),
       Food("Broccoli", 150, 51, 42, 105, 6),
       Food("Avocado", 50, 80, 10, 45, 75) >>

DinnerFoods ==
    << Food("Salmon", 150, 312, 300, 0, 195),
       Food("Sweet Potato", 200, 172, 32, 400, 2),
       Food("Broccoli", 100, 34, 28, 70, 4) >>

\* a default that replaces only the column that was never set
OrDefaultOnlyNull(v, d) == IF v = NaN THEN d ELSE v

\* v || d on a number column: 0 and null are falsy
OrDefault(v, d) == IF v = 0 \/ v = NaN THEN d ELSE v

\* an allotment rounded to the nearest integer
caloriesPerMealRounded(profile) ==
    MathRound(OrDefault(profile.daily_calorie_target, 2000), 3)

\* line 52: Math.floor((userProfile.daily_calorie_target || 2000) / 3)
caloriesPerMeal(profile) == OrDefault(profile.daily_calorie_target, 2000) \div 3

\* lines 53-55: the three other allotments, which the handler computes and
\* puts into no recommendation
proteinPerMeal(profile) == OrDefault(profile.protein_target, 150) \div 3

carbsPerMeal(profile) == OrDefault(profile.carbs_target, 200) \div 3

fatPerMeal(profile) == OrDefault(profile.fat_target, 65) \div 3

\* lines 57-93
newRecommendations(profile) ==
    << [meal_type |-> "breakfast",
        total_calories |-> caloriesPerMeal(profile),
        reasoning |-> "High protein breakfast to start your day with sustained energy",
        recommended_foods |-> BreakfastFoods],
       [meal_type |-> "lunch",
        total_calories |-> caloriesPerMeal(profile),
        reasoning |-> "Balanced meal with lean protein and complex carbs for afternoon energy",
        recommended_foods |-> LunchFoods],
       [meal_type |-> "dinner",
        total_calories |-> caloriesPerMeal(profile),
        reasoning |-> "Omega-3 rich meal with vegetables for optimal recovery and health",
        recommended_foods |-> DinnerFoods] >>

ProfileRequired ==
    "Please complete your profile first to get personalized recommendations."

\* the Meal Plans tab: the component is mounted with its useState values and
\* its effect starts loadUserProfile
OpenRecommendations ==
    /\ activeTab["c1"] # "recommendations"
    /\ activeTab' = [activeTab EXCEPT !["c1"] = "recommendations"]
    /\ shownMeals' = [shownMeals EXCEPT !["c1"] = {}]
    /\ userProfile' = NoProfile
    /\ recommendations' = <<>>
    /\ loading' = FALSE
    /\ lpc' = "load"
    /\ UNCHANGED <<detectSide, storeVars, today, user, capturedImage, saveVars,
                   user_profiles, meal_recommendations, nextRecId, rpc,
                   pending, alert>>

\* the Profile tab, left for once no generation is under way: the
\* MealRecommendations component and its state are gone
OpenProfile ==
    /\ activeTab["c1"] # "profile"
    /\ rpc = "idle"
    /\ alert = Undefined
    /\ activeTab' = [activeTab EXCEPT !["c1"] = "profile"]
    /\ shownMeals' = [shownMeals EXCEPT !["c1"] = {}]
    /\ userProfile' = NoProfile
    /\ recommendations' = <<>>
    /\ loading' = FALSE
    /\ lpc' = "idle"
    /\ UNCHANGED <<detectSide, storeVars, today, user, capturedImage, saveVars,
                   user_profiles, meal_recommendations, nextRecId, rpc,
                   pending, alert>>

\* UserProfile.saveProfile (lines 72-89): the upsert of the form, of which
\* the four target fields are followed
saveProfile(target, ok) ==
    /\ activeTab["c1"] = "profile"
    /\ user_profiles' =
          IF ok
          THEN [user_profiles EXCEPT ![user["c1"]] =
                   [stored |-> TRUE,
                    daily_calorie_target |-> target.daily_calorie_target,
                    protein_target |-> target.protein_target,
                    carbs_target |-> target.carbs_target,
                    fat_target |-> target.fat_target]]
          ELSE user_profiles
    /\ UNCHANGED <<detectSide, saveSide, meal_recommendations, nextRecId,
                   userProfile, recommendations, loading, lpc, rpc, pending,
                   alert>>

\* loadUserProfile (lines 32-42): maybeSingle() gives null when there is no
\* row and when the read fails
loadUserProfile(ok) ==
    /\ lpc = "load"
    /\ userProfile' = IF ok THEN user_profiles[user["c1"]] ELSE NoProfile
    /\ lpc' = "idle"
    /\ UNCHANGED <<detectSide, saveSide, user_profiles, meal_recommendations,
                   nextRecId, recommendations, loading, rpc, pending, alert>>

\* a guard that lets every click through
NeverRefused(profile) == FALSE

\* line 45: !user || !userProfile; MainApp is rendered for a signed-in user
\* only (App.tsx), so user is set whenever the button exists
NoUserOrProfile(profile) == profile = NoProfile

\* generateRecommendations, lines 44-94: the button (disabled while loading)
\* up to the first insert
generateRecommendations ==
    /\ activeTab["c1"] = "recommendations"
    /\ ~loading
    /\ alert = Undefined
    /\ nextRecId + 2 <= 3 * MaxGenerations
    /\ IF NoUserOrProfile(userProfile)
       THEN /\ alert' = ProfileRequired
            /\ UNCHANGED <<recommendations, loading, rpc, pending>>
       ELSE /\ loading' = TRUE
            /\ recommendations' = newRecommendations(userProfile)
            /\ pending' = newRecommendations(userProfile)
            /\ rpc' = "insert"
            /\ UNCHANGED alert
    /\ UNCHANGED <<detectSide, saveSide, user_profiles, meal_recommendations,
                   nextRecId, userProfile, lpc>>

\* lines 95-105: one insert of the loop, its error not read; after the last
\* one, setLoading(false)
InsertRecommendation(ok) ==
    /\ rpc = "insert"
    /\ meal_recommendations' =
          IF ok
          THEN meal_recommendations \cup
                 {[id |-> nextRecId, user_id |-> user["c1"],
                   meal_type |-> Head(pending).meal_type,
                   recommended_foods |-> Head(pending).recommended_foods,
                   total_calories |-> Head(pending).total_calories,
                   reasoning |-> Head(pending).reasoning]}
          ELSE meal_recommendations
    /\ nextRecId' = IF ok THEN nextRecId + 1 ELSE nextRecId
    /\ pending' = Tail(pending)
    /\ IF Len(pending) = 1
       THEN loading' = FALSE /\ rpc' = "idle"
       ELSE UNCHANGED <<loading, rpc>>
    /\ UNCHANGED <<detectSide, saveSide, user_profiles, userProfile,
                   recommendations, lpc, alert>>

\* OK on the alert
DismissAlert ==
    /\ alert # Undefined
    /\ alert' = Undefined
    /\ UNCHANGED <<detectSide, saveSide, user_profiles, meal_recommendations,
                   nextRecId, userProfile, recommendations, loading, lpc, rpc,
                   pending>>

NextRec ==
    \/ OpenRecommendations
    \/ OpenProfile
    \/ \E target \in TargetInputs, ok \in BOOLEAN : saveProfile(target, ok)
    \/ \E ok \in BOOLEAN : loadUserProfile(ok)
    \/ generateRecommendations
    \/ \E ok \in BOOLEAN : InsertRecommendation(ok)
    \/ DismissAlert

\* the user has no profile row, or one whose target columns were never set
InitRec ==
    /\ DetectInit(TRUE)
    /\ SaveInit("u2")
    /\ \E first \in {NoProfile, [NoProfile EXCEPT !.stored = TRUE]} :
          user_profiles = [u \in Users |-> IF u = "u1" THEN first ELSE NoProfile]
    /\ meal_recommendations = {}
    /\ nextRecId = 1
    /\ userProfile = NoProfile
    /\ recommendations = <<>>
    /\ loading = FALSE
    /\ lpc = "idle"
    /\ rpc = "idle"
    /\ pending = <<>>
    /\ alert = Undefined

SpecRec == InitRec /\ [][NextRec]_vars

(***************************************************************************)
(* Properties of the detection endpoint, under SpecDetect.                 *)
(***************************************************************************)
\* the handler has answered 200 with one record per detected candidate
Enriched ==
    /\ hpc = "done"
    /\ response.status = 200
    /\ Len(detected) > 0
    /\ Len(response.foods) = Len(detected)

\* v is the rational n / d (d > 0) rounded to the nearest integer, a tie
\* going up: v <= n/d + 1/2 < v + 1
IsNearest(v, n, d) ==
    /\ 2 * d * v <= 2 * n + d
    /\ 2 * n + d < 2 * d * (v + 1)

\* rec carries row's identity and row's per-100g values scaled to grams
ScaledFrom(rec, row, grams) ==
    /\ rec.id = row.id
    /\ rec.name = row.name
    /\ IsNearest(rec.calories, row.calories_per_100g * grams, 1000)
    /\ IsNearest(rec.protein, row.protein_per_100g * grams, 100)
    /\ IsNearest(rec.carbs, row.carbs_per_100g * grams, 100)
    /\ IsNearest(rec.fat, row.fat_per_100g * grams, 100)

HasSubstringMatch(food) ==
    \E row \in food_items : IsSubstring(food.name, row.name)

\* C2: every candidate whose name is a case-insensitive substring of a catalog
\* name comes back marked as matched, with the given portion, calories =
\* per-100g calories * portionGrams / 100 rounded to the nearest whole unit and
\* protein, carbs, fat = per-100g value * portionGrams / 100 rounded to one
\* decimal, all taken from one catalog row.
C2_MatchedIsScaled ==
    (hpc = "done" /\ response.status = 200 /\ Len(detected) > 0) =>
        /\ Len(response.foods) = Len(detected)
        /\ \A i \in 1..Len(detected) :
            HasSubstringMatch(detected[i]) =>
                /\ ~response.foods[i].notInDatabase
                /\ response.foods[i].portionGrams = detected[i].portionGrams
                /\ \E row \in food_items :
                    ScaledFrom(response.foods[i], row, detected[i].portionGrams)

\* C2 witness: Chicken Breast at 150 g came back with 248 kcal and 46.5 g of
\* protein.
C2_Witness ==
    /\ Enriched
    /\ \E i \in 1..Len(detected) :
        /\ detected[i].name = ChickenBreast
        /\ detected[i].portionGrams = 150
        /\ response.foods[i].calories = 248
        /\ response.foods[i].protein = 465

C4_MatchedIffSubstring ==
    Enriched =>
        \A i \in 1..Len(detected) :
            /\ ~response.foods[i].notInDatabase <=> HasSubstringMatch(detected[i])
            /\ ~response.foods[i].notInDatabase =>
                \E row \in food_items :
                    /\ IsSubstring(detected[i].name, row.name)
                    /\ ScaledFrom(response.foods[i], row, detected[i].portionGrams)

\* the inference call failed: the connection failed or timed out, or the
\* service refused the call (auth, quota)
InferenceFailed == gemini.kind \in {"network_error", "rejected"}

\* the answer is 200 with no foods and a message
AnsweredEmpty ==
    /\ response.status = 200
    /\ response.foods = <<>>
    /\ response.message # Undefined

\* C7 (as claimed): whenever the call to the vision service fails, the
\* endpoint answers 200 with foods = [] and a message, never a 5xx.
C7_InferenceFailureIsEmpty200 ==
    (hpc = "done" /\ InferenceFailed) => AnsweredEmpty

\* the service answered, and its answer holds no parseable array: no
\* candidates field, no bracketed substring, or a bracketed substring that is
\* not valid JSON
NoParseableArray ==
    \/ gemini.kind = "rejected"
    \/ /\ gemini.kind = "text"
       /\ \/ RegexMatch(gemini.text) = <<>>
          \/ ~ParsesAsJSON(RegexMatch(gemini.text))

\* C8 (as claimed): an answer without a parseable array is treated like zero
\* candidates: 200 with foods = [] and a message, never an error response.
C8_MalformedIsEmpty200 ==
    (hpc = "done" /\ NoParseableArray) => AnsweredEmpty

\* a POST whose JSON body carries no imageUrl (absent or empty)
NoImageUrl ==
    /\ request.method = "POST"
    /\ request.json
    /\ request.imageUrl \in {Undefined, ""}

\* C9: a POST whose body carries no imageUrl is answered 400 "Image URL is
\* required", and the run makes no image fetch, no inference call and no
\* catalog read.
C9_MissingImageUrlIs400 ==
    NoImageUrl =>
        /\ imageFetches = 0
        /\ geminiCalls = 0
        /\ catalogReads = 0
        /\ hpc \in {"start", "done"}
        /\ hpc = "done" =>
            /\ response.status = 400
            /\ response.error = "Image URL is required"

\* C9 witness: a POST with an empty imageUrl has been answered 400.
C9_Witness ==
    /\ NoImageUrl
    /\ request.imageUrl = ""
    /\ hpc = "done"
    /\ response.status = 400

\* C10 (as claimed): no run of the handler for a request without a bearer
\* token makes the inference call.
C10_NoInferenceWithoutAuth ==
    (request.method = "POST" /\ ~request.auth) => geminiCalls = 0

(***************************************************************************)
(* Properties of the meal save and delete path.                            *)
(***************************************************************************)
\* the sum of field over a set of rows
RECURSIVE SumOver(_, _)
SumOver(rows, field) ==
    IF rows = {} THEN 0
    ELSE LET r == CHOOSE x \in rows : TRUE
         IN  r[field] + SumOver(rows \ {r}, field)

MealsOf(u, d) == {m \in meals : m.user_id = u /\ m.meal_date = d}

\* the summary of (u, d) in the table S is exactly one row, with these totals
SummaryIs(S, u, d, cal, pro, carb, fat) ==
    {r \in S : r.user_id = u /\ r.summary_date = d} =
        {[user_id |-> u, summary_date |-> d, total_calories |-> cal,
          total_protein |-> pro, total_carbs |-> carb, total_fat |-> fat]}

\* the summary of (u, d) holds the sums over the meals stored for (u, d); a
\* day without meals and without a summary row agrees trivially
SummaryMatchesMeals(u, d) ==
    (MealsOf(u, d) # {} \/ SummaryRows(u, d) # {}) =>
        SummaryIs(daily_summaries, u, d,
                  SumOver(MealsOf(u, d), "total_calories"),
                  SumOver(MealsOf(u, d), "total_protein"),
                  SumOver(MealsOf(u, d), "total_carbs"),
                  SumOver(MealsOf(u, d), "total_fat"))

\* C1 (as claimed): after any sequence of meal saves and meal deletions, for
\* every (user, date) the DailySummary totals equal the sums of the totals of
\* the MealRecords stored for that user and date.
C1_SummaryEqualsStoredMeals ==
    (\A c \in Clients : spc[c] = "idle") =>
        \A u \in Users, d \in 1..MaxDay : SummaryMatchesMeals(u, d)

\* C5: a save that runs alone leaves the day's summary at what it was plus the
\* meal's totals: it creates the row equal to the totals when the day has
\* none, and adds to the row otherwise; it never overwrites it.
C5_SequentialSaveAdds ==
    [][(spc["c1"] = "writeSummary" /\ spc'["c1"] = "idle") =>
        LET u == user["c1"]
            d == mealDate["c1"]
            cal == Reduce(foods["c1"], "calories")
            pro == Reduce(foods["c1"], "protein")
            carb == Reduce(foods["c1"], "carbs")
            fat == Reduce(foods["c1"], "fat")
        IN  /\ SummaryRows(u, d) = {} =>
                SummaryIs(daily_summaries', u, d, cal, pro, carb, fat)
            /\ \A r \in SummaryRows(u, d) :
                SummaryIs(daily_summaries', u, d,
                          r.total_calories + cal, r.total_protein + pro,
                          r.total_carbs + carb, r.total_fat + fat)]_vars

\* C5 witness: two meals of 248 and 139 kcal were saved one after the other
\* on day 1, and the day's summary holds 387 kcal.
C5_Witness ==
    /\ spc["c1"] = "idle"
    /\ {m.total_calories : m \in MealsOf("u1", 1)} = {248, 139}
    /\ Cardinality(MealsOf("u1", 1)) = 2
    /\ \E r \in SummaryRows("u1", 1) :
        r.total_calories = 387 /\ r.total_protein = 465 + 33

\* C6 (as claimed): when the steps of two saves for the same user and date
\* interleave, no update is lost: once both have completed, the day's summary
\* holds the sum of both meals' totals.
C6_InterleavedSavesAdd ==
    (\A c \in Clients : spc[c] = "idle") =>
        \A u \in Users, d \in 1..MaxDay : SummaryMatchesMeals(u, d)

(***************************************************************************)
(* Properties of the edit list, under SpecEdit.                            *)
(***************************************************************************)
\* C11: a portion edit with a new portion of 0 or less is rejected: it
\* leaves every record of the list, the addressed one included, as it was.
C11_NonPositivePortionRejected ==
    [][\A i \in 1..Len(detectedFoods) : \A grams \in Grams :
          (grams <= 0 /\ updatePortion(detectedFoods[i].id, grams))
             => detectedFoods' = detectedFoods]_vars

\* C12: rescaling a record of the edit list to the portion it has changes
\* none of its portion, calories, protein, carbs and fat (and so neither does
\* any number of repetitions).
C12_RescaleToOwnPortionIsIdentity ==
    \A i \in 1..Len(detectedFoods) :
        MapPortion(detectedFoods, detectedFoods[i].id,
                   detectedFoods[i].portionGrams)[i] = detectedFoods[i]

\* v is what rounding x * grams / portionGrams to the nearest integer gives,
\* a tie going up; where that quotient does not exist (a portion of 0, or an
\* x that is no number) v is no finite number either
IsRescaled(v, x, grams, portionGrams) ==
    IF ~IsFinite(x) \/ portionGrams = 0 THEN ~IsFinite(v)
    ELSE /\ IsFinite(v)
         /\ IsNearest(v, x * grams * Sgn(portionGrams), Abs(portionGrams))

\* C13: updatePortion(id, grams) with grams > 0 takes the addressed record,
\* in one step, to portionGrams = grams with calories, protein, carbs and fat
\* each the old value times grams over the old portion, rounded (calories to
\* a whole number, the others to one decimal); the record's other fields,
\* the records with other ids and the length of the list are unchanged.
C13_UpdatePortionRescalesAtomically ==
    [][\A k \in 1..Len(detectedFoods) :
       \A grams \in Grams \cup {detectedFoods[j].portionGrams :
                                   j \in 1..Len(detectedFoods)} :
          (grams > 0 /\ updatePortion(detectedFoods[k].id, grams))
             => /\ Len(detectedFoods') = Len(detectedFoods)
                /\ \A i \in 1..Len(detectedFoods) :
                     LET old == detectedFoods[i]
                         new == detectedFoods'[i]
                     IN  IF old.id # detectedFoods[k].id THEN new = old
                         ELSE /\ new.portionGrams = grams
                              /\ IsRescaled(new.calories, old.calories, grams,
                                            old.portionGrams)
                              /\ IsRescaled(new.protein, old.protein, grams,
                                            old.portionGrams)
                              /\ IsRescaled(new.carbs, old.carbs, grams,
                                            old.portionGrams)
                              /\ IsRescaled(new.fat, old.fat, grams,
                                            old.portionGrams)
                              /\ new.id = old.id
                              /\ new.name = old.name
       ]_vars

\* the 150 g of Chicken Breast (248 kcal, 46.5 g protein, 5.4 g fat) have been
\* edited to 100 g: 165 kcal, 31 g protein, 3.6 g fat
C13_Witness ==
    \E i \in 1..Len(detectedFoods) :
        /\ detectedFoods[i].name = ChickenBreast
        /\ detectedFoods[i].portionGrams = 100
        /\ detectedFoods[i].calories = 165
        /\ detectedFoods[i].protein = 310
        /\ detectedFoods[i].fat = 36

\* the reorderings of a list
Reorderings(fs) ==
    {[i \in 1..Len(fs) |-> fs[f[i]]] :
        f \in {g \in [1..Len(fs) -> 1..Len(fs)] :
                 \A i, j \in 1..Len(fs) : g[i] = g[j] => i = j}}

ZeroTotals == [calories |-> 0, protein |-> 0, carbs |-> 0, fat |-> 0]

\* the meal row a save of session c1 has inserted
SavedMeal == {m \in meals : spc["c1"] \in {"insertItems", "readSummary",
                                            "writeSummary"}
                            /\ m.id = mealData["c1"]}

Generated == recommendations # <<>> /\ userProfile.stored

\* three recommendations on screen: breakfast, lunch, dinner, in that order,
\* each with its slot's template and reasoning
ThreeSlots ==
    /\ Len(recommendations) = 3
    /\ recommendations[1].meal_type = "breakfast"
    /\ recommendations[2].meal_type = "lunch"
    /\ recommendations[3].meal_type = "dinner"
    /\ recommendations[1].recommended_foods = BreakfastFoods
    /\ recommendations[2].recommended_foods = LunchFoods
    /\ recommendations[3].recommended_foods = DinnerFoods
    /\ \A target \in TargetInputs :
         \A i \in 1..3 :
            recommendations[i].reasoning =
               newRecommendations([stored |-> TRUE,
                    daily_calorie_target |-> target.daily_calorie_target,
                    protein_target |-> target.protein_target,
                    carbs_target |-> target.carbs_target,
                    fat_target |-> target.fat_target])[i].reasoning

\* t is floor(n / 3)
IsFloorOfThird(t, n) == 3 * t <= n /\ n < 3 * (t + 1)

\* C15: for a profile whose Calories target is set, generateRecommendations
\* puts exactly three recommendations on screen, breakfast, lunch and dinner
\* in that order, each with total_calories = floor(daily_calorie_target / 3)
\* whatever the target's value, and with the slot's fixed foods and
\* reasoning.
C15_ThreeMealsOfAThirdEach ==
    (Generated /\ userProfile.daily_calorie_target # NaN)
       => /\ ThreeSlots
          /\ \A i \in 1..3 :
               IsFloorOfThird(recommendations[i].total_calories,
                              userProfile.daily_calorie_target)

\* C15 as amended: as C15, with total_calories = floor(t / 3) where t is the
\* profile's daily_calorie_target, or 2000 when that target is 0 or was
\* never set.
C15_ThreeMealsOfAThirdOrDefault ==
    Generated
       => /\ ThreeSlots
          /\ \A i \in 1..3 :
               IsFloorOfThird(recommendations[i].total_calories,
                              IF userProfile.daily_calorie_target \in {0, NaN}
                              THEN 2000
                              ELSE userProfile.daily_calorie_target)

\* plans are on screen for a target of 2500: 833 kcal each
C15_Witness ==
    /\ Generated
    /\ userProfile.daily_calorie_target = 2500
    /\ recommendations[3].total_calories = 833

\* C16: with no stored profile at hand (none stored, not loaded yet, or a
\* failed read), a click on the button refuses: it raises the alert that a
\* profile is required, leaves the recommendations on screen as they are,
\* starts no insert and adds no meal_recommendations row.
C16_RefusesWithoutProfile ==
    [][(userProfile = NoProfile /\ generateRecommendations)
          => /\ alert' = ProfileRequired
             /\ recommendations' = recommendations
             /\ meal_recommendations' = meal_recommendations
             /\ rpc' = "idle"
             /\ pending' = <<>>
             /\ ~loading']_vars

\* the alert is up after a click made before any profile was stored
C16_Witness ==
    /\ alert = ProfileRequired
    /\ userProfile = NoProfile
    /\ ~user_profiles["u1"].stored
    /\ meal_recommendations = {}

(***************************************************************************)
(* Properties of the save under rejected store calls and interruptions,    *)
(* under SpecFail.                                                         *)
(***************************************************************************)
\* the summary of (u, d), when there is one, holds the sums over some of the
\* meals stored for (u, d)
OnlyStoredContributions(u, d) ==
    \A r \in SummaryRows(u, d) :
        \E S \in SUBSET MealsOf(u, d) :
            /\ r.total_calories = SumOver(S, "total_calories")
            /\ r.total_protein = SumOver(S, "total_protein")
            /\ r.total_carbs = SumOver(S, "total_carbs")
            /\ r.total_fat = SumOver(S, "total_fat")

\* C17: a save writes meal row, items, summary read, summary write in that
\* order, and writes the summary only after an accepted meal insert; so in
\* every reachable state, after an interruption or a rejected call too, a
\* meal may be stored without its share of the day's summary, but the
\* summary holds no share of a meal that is not stored.
C17_SummaryHoldsOnlyStoredMeals ==
    /\ \A c \in Clients :
          spc[c] \in {"insertItems", "readSummary", "writeSummary"}
             => mealData[c] # 0 /\ mealData[c] < nextMealId
    /\ \A u \in Users, d \in 1..MaxDay : OnlyStoredContributions(u, d)

\* the meal_items rows of a meal
ItemsOf(m) == {it \in meal_items : it.meal_id = m.id}

\* C18: a meal and its items are stored as one: in every reachable state,
\* after a rejected item insert or an interruption behind the meal insert
\* too, every stored meal has its items (one for each record of the list
\* while its save still holds the list), and its totals are the sums over
\* them.  The moment between the two inserts of a save that is still
\* running is left out: the meal looked at is one whose item insert has
\* been answered or will never be sent.
AwaitingItems(m) ==
    \E c \in Clients : spc[c] = "insertItems" /\ mealData[c] = m.id

C18_MealAndItemsAreAtomic ==
    \A m \in {x \in meals : ~AwaitingItems(x)} :
        /\ ItemsOf(m) # {}
        /\ \A c \in Clients :
              mealData[c] = m.id => Cardinality(ItemsOf(m)) = Len(foods[c])
        /\ m.total_calories = SumOver(ItemsOf(m), "calories")
        /\ m.total_protein = SumOver(ItemsOf(m), "protein")
        /\ m.total_carbs = SumOver(ItemsOf(m), "carbs")
        /\ m.total_fat = SumOver(ItemsOf(m), "fat")

\* a store call of the save of session c1 is rejected
SaveRejected ==
    \/ InsertMeal("c1", FALSE)
    \/ InsertItems("c1", FALSE)
    \/ WriteSummary("c1", FALSE)

\* C19: when the store rejects the meal insert, or a later insert or update
\* of the save, the user is told, and the capture session is not reset: the
\* image is still held and the capture tab, with the edited list, is still
\* the one shown.
C19_RejectedSaveKeepsSession ==
    [][SaveRejected
          => /\ alert' # Undefined
             /\ capturedImage'["c1"]
             /\ activeTab'["c1"] = activeTab["c1"]]_vars

(***************************************************************************)
(* Cancelling and abandoning a detection, under SpecEdit.                  *)
(***************************************************************************)
\* the component's state is gone, and with it the edit list
ListDiscarded == cpc' = "unmounted" /\ detectedFoods' = <<>>

\* the step writes nothing to meals, meal_items and daily_summaries
NoStoreMutation == UNCHANGED <<meals, meal_items, daily_summaries>>

\* C20 (as claimed): cancelling a detection, or abandoning one by leaving
\* the capture tab, clears the captured image, discards the edit list and
\* mutates no meal, item or summary; a detection response that arrives
\* afterwards mutates none either.
C20_CancelOrAbandonClearsAll ==
    [][/\ (onCancel \/ \E tab \in Tabs : LeaveCapture(tab))
            => ~capturedImage'["c1"] /\ ListDiscarded /\ NoStoreMutation
       /\ LateResponse => NoStoreMutation]_vars

\* C20 (amended): cancelling clears the captured image and discards the
\* edit list; abandoning a detection, in flight or settled, by leaving the
\* capture tab discards the edit list and leaves the captured image held;
\* neither mutates a meal, an item or a summary, nor does a detection
\* response that arrives afterwards; the store changes in steps of a
\* confirmed save only.
C20_CancelOrAbandonMutatesNoRecord ==
    [][/\ onCancel
            => ~capturedImage'["c1"] /\ ListDiscarded /\ NoStoreMutation
       /\ (\E tab \in Tabs : LeaveCapture(tab))
            => capturedImage'["c1"] /\ ListDiscarded /\ NoStoreMutation
       /\ LateResponse => NoStoreMutation
       /\ ~NoStoreMutation => spc["c1"] # "idle"]_vars

\* the capture tab was left while the detection was in flight: the component
\* is gone, the handler's answer is still to arrive, and the store holds the
\* earlier meal and its summary as before
C20_Witness ==
    /\ cpc = "unmounted"
    /\ hpc = "done"
    /\ request.from = "app"
    /\ activeTab["c1"] = "history"
    /\ capturedImage["c1"]
    /\ detectedFoods = <<>>
    /\ meals = {EarlierMeal}
    /\ meal_items = {EarlierItem}
    /\ daily_summaries = {InsertedSummary("u1", 1, Totals(<<ChickenBreast150>>))}

(***************************************************************************)
(* Properties of the records one detection call returns, under SpecDetect. *)
(***************************************************************************)
\* the positions of the unmatched records of a list
UnmatchedAt(fs) == {i \in 1..Len(fs) : fs[i].notInDatabase}

\* C21: within one detection call, the ids synthesized for the unmatched
\* candidates are pairwise distinct, and distinct from the catalog ids of
\* the matched records of the same call.
C21_SynthesizedIdsAreUnique ==
    response.status = 200 =>
        \A i \in UnmatchedAt(response.foods) :
            \A j \in 1..Len(response.foods) :
                j # i => response.foods[j].id # response.foods[i].id

(***************************************************************************)
(* The rows of daily_summaries, under SpecSave.                            *)
(***************************************************************************)
\* no (user, date) has two rows in the table S
OneRowPerDay(S) ==
    \A r1 \in S, r2 \in S :
        (r1.user_id = r2.user_id /\ r1.summary_date = r2.summary_date)
            => r1 = r2

\* session c ends its save with the summary write
WritesSummary(c) == spc[c] = "writeSummary" /\ spc'[c] = "idle"

\* C22: there is never more than one daily_summaries row for a (user, date):
\* the summary write of a save inserts a row only when the day has none, and
\* otherwise it updates the row the day has.
C22_OneSummaryRowPerDay ==
    [][/\ OneRowPerDay(daily_summaries')
       /\ \A c \in Clients :
            WritesSummary(c) =>
               LET rows == SummaryRows(user[c], mealDate[c])
                   t == Totals(foods[c])
               IN  IF rows = {}
                   THEN daily_summaries' = daily_summaries \cup
                           {InsertedSummary(user[c], mealDate[c], t)}
                   ELSE /\ existingSummary[c] # NoSummary
                        /\ daily_summaries' = (daily_summaries \ rows) \cup
                              {UpdatedSummary(existingSummary[c], t)}]_vars

(***************************************************************************)
(* The records of the edit list, under SpecEdit.                           *)
(***************************************************************************)
\* a finite number that is not negative
NonNegative(x) == IsFinite(x) /\ x >= 0

\* C23: after any sequence of detection, updatePortion, addCustomFood and
\* removeFood, every record of the edit list has a portion above 0 and
\* calories, protein, carbs and fat that are finite and not negative; so
\* has every record that can be saved.
C23_RecordsWithinBounds ==
    \A i \in 1..Len(detectedFoods) :
        /\ IsFinite(detectedFoods[i].portionGrams)
        /\ detectedFoods[i].portionGrams > 0
        /\ NonNegative(detectedFoods[i].calories)
        /\ NonNegative(detectedFoods[i].protein)
        /\ NonNegative(detectedFoods[i].carbs)
        /\ NonNegative(detectedFoods[i].fat)

\* a record of no catalog row: one the detection could not match (its id is
\* synthesized) or one the user added by hand (its id is a timestamp)
NotFromCatalog(food) == food.id[1] \in {"temp", "now"}

\* the meal_items row of position i of the save of session c1
SavedItem(i) ==
    {it \in meal_items : it.meal_id = mealData["c1"] /\ it.n = i}

\* C24: records of no catalog row never block a save.  Once detection has
\* finished, Save Meal can be clicked exactly when the edit list is not
\* empty, however many of its records are unmatched or added by hand; and
\* once the items of the save are written, each such record is a meal_items
\* row with its name, its portion and zero nutrients.
C24_UnmatchedNeverBlocksSave ==
    /\ Editing => (ENABLED onFoodConfirmed <=> Len(detectedFoods) > 0)
    /\ spc["c1"] \in {"readSummary", "writeSummary"} =>
          \A i \in 1..Len(foods["c1"]) :
              NotFromCatalog(foods["c1"][i]) =>
                  \E it \in SavedItem(i) :
                      /\ it.food_name = foods["c1"][i].name
                      /\ it.portion_size_grams = foods["c1"][i].portionGrams
                      /\ it.calories = 0
                      /\ it.protein = 0
                      /\ it.carbs = 0
                      /\ it.fat = 0

(***************************************************************************)
(* Deleting a meal in Meal History, under SpecHistory.                     *)
(***************************************************************************)
\* nothing of meal mealId is left in the table rows
GoneFrom(mealRows, itemRows, mealId) ==
    /\ \A m \in mealRows : m.id # mealId
    /\ \A it \in itemRows : it.meal_id # mealId

\* the step takes mealId off the list session c has on screen
Disappears(c, mealId) ==
    /\ mealId \in shownMeals[c]
    /\ mealId \notin shownMeals'[c]
    /\ activeTab'[c] = "history"

\* C25: deleting a meal deletes all of its items: after a delete the store
\* accepted, no meal_items row refers to the meal; and the meal leaves the
\* list on screen only if the store deleted it: a rejected delete changes
\* neither the store nor the list.
C25_DeleteCascadesToItems ==
    [][\A c \in Clients, mealId \in 1..MaxMeals :
          /\ deleteMeal(c, mealId, TRUE)
                => GoneFrom(meals', meal_items', mealId)
          /\ Disappears(c, mealId)
                => GoneFrom(meals', meal_items', mealId)
          /\ deleteMeal(c, mealId, FALSE)
                => UNCHANGED <<meals, meal_items, shownMeals>>]_vars

\* of two saved meals the first was deleted: the second is stored with its
\* items and is the only one on the list, and no row of the first is left
C25_Witness ==
    /\ activeTab["c1"] = "history"
    /\ spc["c1"] = "idle"
    /\ nextMealId = 3
    /\ {m.id : m \in meals} = {2}
    /\ {it.meal_id : it \in meal_items} = {2}
    /\ shownMeals["c1"] = {2}

(***************************************************************************)
(* The defaults of the meal plans, under SpecRec.                          *)
(***************************************************************************)
\* a per-meal allotment a is the floor of a third of the field, and of the
\* default d where the field is left to it
AllottedFrom(a, field, d, leftToDefault) ==
    IsFloorOfThird(a, IF field \in leftToDefault THEN d ELSE field)

\* the four allotments of the loaded profile are computed from its fields,
\* with the defaults standing in for the values of leftToDefault
AllotmentsUseDefaultsFor(leftToDefault) ==
    /\ \A i \in 1..3 :
          AllottedFrom(recommendations[i].total_calories,
                       userProfile.daily_calorie_target, 2000, leftToDefault)
    /\ AllottedFrom(proteinPerMeal(userProfile), userProfile.protein_target,
                    150, leftToDefault)
    /\ AllottedFrom(carbsPerMeal(userProfile), userProfile.carbs_target,
                    200, leftToDefault)
    /\ AllottedFrom(fatPerMeal(userProfile), userProfile.fat_target,
                    65, leftToDefault)

\* an absent calorie target gives 666 on each of the three recommendations
AbsentTargetGives666 ==
    userProfile.daily_calorie_target = NaN =>
        \A i \in 1..3 : recommendations[i].total_calories = 666

\* C26 (as claimed): with a stored profile, a target field that is absent is
\* replaced by its default (2000 calories, 150 protein, 200 carbs, 65 fat),
\* so that an absent daily_calorie_target gives total_calories 666 on all
\* three recommendations; a default is used only for a field that is absent.
C26_DefaultOnlyForAbsentField ==
    Generated => AbsentTargetGives666 /\ AllotmentsUseDefaultsFor({NaN})

\* C26 (amended): as above, with the default used for a field that is absent
\* or 0, and for no other.
C26_DefaultForAbsentOrZeroField ==
    Generated => AbsentTargetGives666 /\ AllotmentsUseDefaultsFor({NaN, 0})

\* plans generated from a stored profile whose calorie target was never
\* set: 666 kcal each
C26_Witness ==
    /\ Generated
    /\ userProfile.stored
    /\ userProfile.daily_calorie_target = NaN
    /\ userProfile.protein_target = NaN
    /\ recommendations[2].total_calories = 666

(***************************************************************************)
(* The outcomes of detectFood, under SpecDetect.                           *)
(***************************************************************************)
\* a run of detectFood ends in this step
DetectFoodEnds == cpc \in {"detectFood", "awaiting"} /\ cpc' = "settled"

\* the response reaches the component and carries at least one food
CarriedFoods ==
    DetectFoodSettle /\ response.status = 200 /\ Len(response.foods) > 0

\* the block of line 141 is rendered: the list, "Add Custom Food" and the
\* two buttons
CustomFoodOnScreen == cpc = "settled" /\ ~detecting

\* C27: every run of detectFood ends with detecting false, whatever the
\* outcome (no session, a response that is not 2xx, a thrown error, no
\* foods, foods); after it the error message is null exactly when the
\* response carried a non-empty foods list; on a failure and on an empty
\* result the edit list is left as it was, and foods can still be added by
\* hand.
C27_DetectFoodAlwaysSettles ==
    [][DetectFoodEnds
          => /\ ~detecting'
             /\ CustomFoodOnScreen'
             /\ error' = Undefined <=> CarriedFoods
             /\ error' # Undefined => detectedFoods' = detectedFoods]_vars

\* a run has ended in a failure: the message is shown, the list is empty,
\* and the spinner is gone
C27_Witness ==
    /\ cpc = "settled"
    /\ ~detecting
    /\ session
    /\ error = "Failed to detect food. Please add foods manually."
    /\ detectedFoods = <<>>

\* C28: the ids of the records of the edit list are pairwise distinct after
\* any detection result and any custom additions, so that updatePortion(id,
\* g) and removeFood(id) each address exactly one record.
C28_EditListIdsAreDistinct ==
    \A i \in 1..Len(detectedFoods), j \in 1..Len(detectedFoods) :
        i # j => detectedFoods[i].id # detectedFoods[j].id

\* the candidate the handler enriches at position i
CandidateAt(i) == detected[i]

\* C29: the enrichment returns exactly one record for each detected
\* candidate, in the candidates' order, with the candidate's portionGrams
\* and confidence; and what a candidate is enriched to does not depend on
\* the other candidates: it is a record the candidate can be enriched to
\* when it is the only one.
C29_OneRecordPerCandidate ==
    (hpc = "done" /\ response.status = 200 /\ detected # <<>>) =>
        /\ Len(response.foods) = Len(detected)
        /\ \A i \in 1..Len(detected) :
              /\ response.foods[i].portionGrams = CandidateAt(i).portionGrams
              /\ response.foods[i].confidence = CandidateAt(i).confidence
              /\ <<response.foods[i]>> \in EnrichAll(<<CandidateAt(i)>>)

\* two candidates were enriched, the first to a catalog row and the second
\* to an unmatched record, each with its own portion and confidence
C29_Witness ==
    /\ hpc = "done"
    /\ response.status = 200
    /\ Len(detected) = 2
    /\ detected[1].portionGrams # detected[2].portionGrams
    /\ ~response.foods[1].notInDatabase
    /\ response.foods[2].notInDatabase
    /\ response.foods[1].portionGrams = detected[1].portionGrams
    /\ response.foods[2].confidence = detected[2].confidence

\* the four nutrient fields of a record
NutrientFields == {"calories", "protein", "carbs", "fat"}

\* C30: zero is absorbing under portion edits: a nutrient field of a record
\* that is 0 (an unmatched or hand-added food, or a value that rounded to 0
\* at a small portion) is still 0 after every updatePortion of the record
\* to a portion above 0, so that editing the portion back up does not bring
\* the earlier values back.
C30_ZeroIsAbsorbing ==
    [][\A i \in 1..Len(detectedFoods) :
          \A grams \in {g \in Grams \cup {detectedFoods[i].portionGrams} : g > 0} :
             updatePortion(detectedFoods[i].id, grams) =>
                \A f \in NutrientFields :
                    detectedFoods[i][f] = 0 => detectedFoods'[i][f] = 0]_vars

=============================================================================
